---- MODULE Spec2Model ----
(***************************************************************************)
(* Model of api.py: a Flask backend that relays customer messages (POST    *)
(* /query with a cookie session, POST /webhook from WhatsApp) to Gemini    *)
(* with FileSearch and relays the answer back.                             *)
(*                                                                         *)
(* Python values that may be None are tagged records (None, Str, Dict);    *)
(* a Python dict is a function whose DOMAIN is the set of its keys.        *)
(* The two external services (Gemini, the WhatsApp Cloud API) are the      *)
(* environment: each call's outcome is chosen nondeterministically.        *)
(***************************************************************************)
EXTENDS Naturals, Sequences, FiniteSets

VARIABLES
    session,        \* client -> that client's Flask session (a dict)
    conversations,  \* api.py:56, sender -> list of {'role','text'}
    http,           \* client -> the request of that client last served by a one-step
                    \* handler, its response, and the Gemini calls it made
    runs,           \* worker -> the POST /webhook request it is serving
    requests,       \* number of /query, /clear and GET /webhook requests accepted so far
    inbound,        \* number of WhatsApp messages accepted so far
    environ         \* os.environ: the WhatsApp settings read at start-up

vars == <<session, conversations, http, runs, requests, inbound, environ>>

----------------------------------------------------------------------------
(* Bounds of the model *)

\* requests served by /query, /clear and GET /webhook in one behaviour
MaxRequests == 3
\* WhatsApp messages accepted by POST /webhook in one behaviour
MaxInbound == 2

Clients == {"c1", "c2"}
Senders == {"51911", "51922"}
Workers == {"w1", "w2"}
Queries == {"", "precio"}
Bodies == {"hola"}
Answers == {"a1", "a2"}

----------------------------------------------------------------------------
(* Python values *)

None == [type |-> "NoneType"]
Str(s) == [type |-> "str", value |-> s]
Dict(d) == [type |-> "dict", value |-> d]

EmptyDict == [k \in {} |-> <<>>]

\* Python truthiness, as used by `not data` and `not payload`
truthy(v) ==
    CASE v.type = "NoneType" -> FALSE
      [] v.type = "str" -> v.value # ""
      [] v.type = "dict" -> DOMAIN v.value # {}

dict_get(d, k, default) == IF k \in DOMAIN d THEN d[k] ELSE default

dict_set_dropping_others(d, k, v) == [x \in {k} |-> v]

dict_set(d, k, v) == [x \in DOMAIN d \cup {k} |-> IF x = k THEN v ELSE d[x]]

dict_pop_lossy(d, k) == d

dict_pop(d, k) == [x \in DOMAIN d \ {k} |-> d[x]]

----------------------------------------------------------------------------
(* Configuration *)

FILE_SEARCH_STORE_ID == "hotelknowledgebasestore2-g76jm0ml54f0"
WHATSAPP_VERIFY_TOKEN == "verify123"
\* the text procesar_con_gemini_for_sender returns when Gemini fails
APOLOGY == "Lo siento, ocurrio un problema procesando tu consulta. Intenta nuevamente mas tarde."

----------------------------------------------------------------------------
(* Gemini: search_file_store either returns response.text or raises *)

GeminiOutcomes ==
    {[ok |-> TRUE, text |-> a] : a \in Answers} \cup {[ok |-> FALSE, text |-> "exception"]}

Turn(role, text) == [role |-> role, text |-> text]

\* types.Content(role=..., parts=[types.Part(text=...)])
Content(role, text) == [role |-> role, parts |-> <<[text |-> text]>>]

\* the loop over history_json followed by the append of the new user block
build_contents(history_json, user_text) ==
    [i \in 1..Len(history_json) |->
        Content(history_json[i].role, history_json[i].text)]
    \o <<Content("user", user_text)>>

append_exchange_user_only(history_json, user_text, respuesta) ==
    history_json \o <<Turn("user", user_text)>>

append_exchange_model_first(history_json, user_text, respuesta) ==
    history_json \o <<Turn("model", respuesta), Turn("user", user_text)>>

\* new_history = history_json + [user turn, model turn]
append_exchange(history_json, user_text, respuesta) ==
    history_json \o <<Turn("user", user_text), Turn("model", respuesta)>>

\* a FileSearch store name: the configured id, bare or behind a prefix
StoreName(prefix, id) == [prefix |-> prefix, id |-> id]

GeminiCall(contents, store_names) ==
    [model |-> "gemini-2.5-flash", contents |-> contents, store_names |-> store_names]

----------------------------------------------------------------------------
(* POST /query *)

QueryBodies ==
    {None, Dict(EmptyDict), Dict([other |-> "x"])}
        \cup {Dict([query |-> q]) : q \in Queries}

query_rejected_if_empty(data) ==
    \/ ~truthy(data)
    \/ "query" \notin DOMAIN data.value
    \/ data.value["query"] = ""

\* `if not data or 'query' not in data`
query_rejected(data) ==
    \/ ~truthy(data)
    \/ "query" \notin DOMAIN data.value

\* What a one-step handler leaves for client c: the request (numbered, with the
\* route of that client's previous request), the response returned, the calls made
\* to Gemini and what Gemini replied.
Response(c, route, request, status, body, calls, replies) ==
    [id |-> requests + 1, previous |-> http[c].route,
     route |-> route, request |-> request, status |-> status, body |-> body,
     calls |-> calls, replies |-> replies]

handle_query(c, data, gemini) ==
    /\ requests < MaxRequests
    /\ requests' = requests + 1
    /\ IF query_rejected(data)
       THEN /\ http' = [http EXCEPT ![c] =
                  Response(c, "POST /query", data, 400,
                           [error |-> "Debe enviar un JSON con la clave 'query'."],
                           <<>>, <<>>)]
            /\ UNCHANGED session
       ELSE LET user_query == data.value["query"]
                history_json == dict_get(session[c], "chat_history", <<>>)
                full_contents == build_contents(history_json, user_query)
                call == GeminiCall(full_contents, <<StoreName("", FILE_SEARCH_STORE_ID)>>)
            IN IF gemini.ok
               THEN /\ session' = [session EXCEPT ![c] =
                          dict_set(@, "chat_history",
                                   append_exchange(history_json, user_query, gemini.text))]
                    /\ http' = [http EXCEPT ![c] =
                          Response(c, "POST /query", data, 200,
                                   [response |-> gemini.text,
                                    agent_role |-> "Agente de Reservas del Hotel",
                                    status |-> "Memoria gestionada por la API (cookie de sesion)"],
                                   <<call>>, <<gemini>>)]
               ELSE /\ session' = [session EXCEPT ![c] = dict_pop(@, "chat_history")]
                    /\ http' = [http EXCEPT ![c] =
                          Response(c, "POST /query", data, 500,
                                   [error |-> "Ocurrio un error en la API de Gemini.",
                                    details |-> gemini.text],
                                   <<call>>, <<gemini>>)]
    /\ UNCHANGED <<conversations, runs, inbound, environ>>

----------------------------------------------------------------------------
(* POST /clear *)

session_cleared_wrong_key(sess) == dict_pop(sess, "history")

\* session.pop('chat_history', None)
session_cleared(sess) == dict_pop(sess, "chat_history")

clear_history(c) ==
    /\ requests < MaxRequests
    /\ requests' = requests + 1
    /\ session' = [session EXCEPT ![c] = session_cleared(@)]
    /\ http' = [http EXCEPT ![c] =
          Response(c, "POST /clear", None, 200,
                   [status |-> "Historial de conversacion limpiado. Nueva sesion iniciada."],
                   <<>>, <<>>)]
    /\ UNCHANGED <<conversations, runs, inbound, environ>>

----------------------------------------------------------------------------
(* GET /webhook *)

Modes == {Str("subscribe"), Str("unsubscribe"), None}
Tokens == {Str(WHATSAPP_VERIFY_TOKEN), Str("wrong"), None}
Challenges == {Str("1158201444"), Str("")}

verify_accepts_any_mode(mode, token) == token = Str(WHATSAPP_VERIFY_TOKEN)

\* `mode == "subscribe" and token == WHATSAPP_VERIFY_TOKEN`
verify_accepts(mode, token) ==
    mode = Str("subscribe") /\ token = Str(WHATSAPP_VERIFY_TOKEN)

whatsapp_verify(c, mode, token, challenge) ==
    /\ requests < MaxRequests
    /\ requests' = requests + 1
    /\ http' = [http EXCEPT ![c] =
          IF verify_accepts(mode, token)
          THEN Response(c, "GET /webhook", <<mode, token, challenge>>, 200, challenge,
                        <<>>, <<>>)
          ELSE Response(c, "GET /webhook", <<mode, token, challenge>>, 403,
                        Str("Verification token mismatch"), <<>>, <<>>)]
    /\ UNCHANGED <<session, conversations, runs, inbound, environ>>

----------------------------------------------------------------------------
(* POST /webhook: payloads *)

\* f"[Tipo de mensaje {mtype} no soportado por ahora]"
unsupported_text(mtype) ==
    CASE mtype = "image" -> "[Tipo de mensaje image no soportado por ahora]"
      [] mtype = "text" -> "[Tipo de mensaje text no soportado por ahora]"
      [] OTHER -> "[Tipo de mensaje None no soportado por ahora]"

\* well-formed inbound messages: text, text without a body, another type
PlainMessages ==
    {[from |-> s, type |-> "text", text |-> [body |-> b]] : s \in Senders, b \in Bodies}
        \cup {[from |-> s, type |-> "image"] : s \in Senders}
        \cup {[from |-> "51911", type |-> "text", text |-> EmptyDict]}

\* ... and the malformed ones: a text message without "text", a message without "from"
WebhookMessages ==
    PlainMessages
        \cup {[from |-> "51911", type |-> "text"]}
        \cup {[type |-> "text", text |-> [body |-> b]] : b \in Bodies}

\* a request carries no message, one, or two
MessageLists ==
    {<<>>} \cup {<<m>> : m \in WebhookMessages}
           \cup {<<m1, m2>> : m1 \in WebhookMessages, m2 \in WebhookMessages}

Change(ms) == [field |-> "messages", value |-> [messages |-> ms]]
StatusChange == [field |-> "messages", value |-> [statuses |-> <<"delivered">>]]
Entry(chs) == [id |-> "waba", changes |-> chs]

\* the WhatsApp Cloud API envelope: entry[] -> changes[] -> value -> messages[];
\* lists of two messages also arrive split over two changes or two entries
WebhookPayloads ==
    {None, Dict(EmptyDict), Dict([object |-> "whatsapp_business_account"]),
     Dict([entry |-> <<Entry(<<StatusChange>>)>>])}
        \cup {Dict([entry |-> <<Entry(<<Change(ms)>>)>>]) : ms \in MessageLists}
        \cup {Dict([entry |-> <<Entry(<<Change(SubSeq(ms, 1, 1)),
                                        Change(SubSeq(ms, 2, Len(ms)))>>)>>]) :
                ms \in {l \in MessageLists : Len(l) >= 2 /\ l[1] = l[2]}}
        \cup {Dict([entry |-> <<Entry(<<Change(SubSeq(ms, 1, 1))>>),
                                Entry(<<StatusChange, Change(SubSeq(ms, 2, Len(ms)))>>)>>]) :
                ms \in {l \in MessageLists : Len(l) >= 2 /\ l[1] = l[2]}}

RECURSIVE concat(_)
concat(lists) == IF lists = <<>> THEN <<>> ELSE Head(lists) \o concat(Tail(lists))

\* messages = value.get("messages", []) or []   with value = change.get("value", {})
change_messages(change) ==
    dict_get(dict_get(change, "value", EmptyDict), "messages", <<>>)

entry_messages(entry) ==
    LET changes == dict_get(entry, "changes", <<>>)
    IN concat([i \in 1..Len(changes) |-> change_messages(changes[i])])

\* the messages in the order the three nested loops visit them
payload_messages(payload) ==
    LET entries == dict_get(payload.value, "entry", <<>>)
    IN concat([i \in 1..Len(entries) |-> entry_messages(entries[i])])

payload_messages_or_none(payload) ==
    IF payload.type = "dict" THEN payload_messages(payload) ELSE <<>>

----------------------------------------------------------------------------
(* POST /webhook: one request served by worker w, in steps that end where the
   handler blocks on an outbound call *)

Idle ==
    [pc |-> "idle", payload |-> None, pending |-> <<>>, sender |-> "", user_text |-> "",
     history_json |-> <<>>, calls |-> <<>>, replies |-> <<>>, bot_response |-> "",
     deliveries |-> <<>>, send_result |-> "", status |-> 0, body |-> ""]

Finished(r, status, body) ==
    [r EXCEPT !.pc = "done", !.pending = <<>>, !.sender = "", !.user_text = "",
              !.history_json = <<>>, !.calls = <<>>, !.replies = <<>>,
              !.bot_response = "", !.status = status, !.body = body]

\* message.get("from")
message_sender(message) ==
    IF "from" \in DOMAIN message THEN Str(message["from"]) ELSE None

\* From the top of the innermost loop to the next call of search_file_store,
\* or to the handler's return: r.pending are the messages not yet visited.
RECURSIVE next_message(_, _)
next_message(r, store) ==
    IF r.pending = <<>>
    THEN Finished(r, 200, "EVENT_RECEIVED")
    ELSE LET message == Head(r.pending)
             sender == message_sender(message)
             mtype == dict_get(message, "type", "None")
         IN IF ~truthy(sender)
            THEN next_message([r EXCEPT !.pending = Tail(@)], store)
            ELSE IF mtype = "text" /\ "text" \notin DOMAIN message
            THEN Finished(r, 500, "error")   \* KeyError, caught at line 276
            ELSE LET user_text == IF mtype = "text"
                                  THEN dict_get(message["text"], "body", "")
                                  ELSE unsupported_text(mtype)
                     history_json == dict_get(store, sender.value, <<>>)
                 IN [r EXCEPT !.pc = "generating",
                              !.pending = Tail(@),
                              !.sender = sender.value,
                              !.user_text = user_text,
                              !.history_json = history_json,
                              !.calls = <<GeminiCall(build_contents(history_json, user_text),
                                                     <<StoreName("fileSearchStores/", FILE_SEARCH_STORE_ID)>>)>>,
                              !.replies = <<>>,
                              !.bot_response = ""]

payload_rejected_only_none(payload) == payload.type = "NoneType"

\* `if not payload`
payload_rejected(payload) == ~truthy(payload)

busy(w) == runs[w].pc \in {"generating", "sending"}

\* the server hands a request to a worker that is not serving one
free_worker ==
    IF ~busy("w1") THEN "w1" ELSE IF ~busy("w2") THEN "w2" ELSE "none"

whatsapp_webhook(w, payload) ==
    /\ w = free_worker
    /\ inbound < MaxInbound
    /\ inbound + Len(payload_messages_or_none(payload)) <= MaxInbound
    /\ inbound' = inbound + Len(payload_messages_or_none(payload))
    /\ runs' = [runs EXCEPT ![w] =
          IF payload_rejected(payload)
          THEN Finished([Idle EXCEPT !.payload = payload], 400, "no payload")
          ELSE next_message([Idle EXCEPT !.payload = payload,
                                         !.pending = payload_messages(payload)],
                            conversations)]
    /\ UNCHANGED <<session, conversations, http, requests, environ>>

store_after_keeping_on_failure(store, r, gemini) ==
    IF gemini.ok
    THEN dict_set(store, r.sender,
                  append_exchange(r.history_json, r.user_text, gemini.text))
    ELSE store

store_after_rereading(store, r, gemini) ==
    IF gemini.ok
    THEN dict_set(store, r.sender,
                  append_exchange(dict_get(store, r.sender, <<>>), r.user_text, gemini.text))
    ELSE dict_pop(store, r.sender)

\* conversations[sender_id] = new_history, or conversations.pop(sender_id, None):
\* the history written is built on the one read before the call
store_after(store, r, gemini) ==
    IF gemini.ok
    THEN dict_set(store, r.sender,
                  append_exchange(r.history_json, r.user_text, gemini.text))
    ELSE dict_pop(store, r.sender)

\* search_file_store returns or raises inside procesar_con_gemini_for_sender;
\* the handler goes on to call enviar_mensaje_whatsapp
gemini_returns(w, gemini) ==
    LET r == runs[w]
    IN /\ r.pc = "generating"
       /\ conversations' = store_after(conversations, r, gemini)
       /\ runs' = [runs EXCEPT ![w] =
             [r EXCEPT !.pc = "sending",
                       !.replies = <<gemini>>,
                       !.bot_response = IF gemini.ok THEN gemini.text ELSE APOLOGY]]
       /\ UNCHANGED <<session, http, requests, inbound, environ>>

whatsapp_configured ==
    environ.WHATSAPP_TOKEN # "" /\ environ.WHATSAPP_PHONE_ID # ""

\* what enviar_mensaje_whatsapp can return
DeliveryResults ==
    IF whatsapp_configured
    THEN {[posted |-> TRUE, result |-> "resp.json()"],
          [posted |-> TRUE, result |-> "status_code and text"],
          [posted |-> TRUE, result |-> "error: exception"]}
    ELSE {[posted |-> FALSE, result |-> "error: configuracion faltante"]}

\* enviar_mensaje_whatsapp returns; its result is printed and the loop goes on
delivery_returns(w, outcome) ==
    LET r == runs[w]
        sent == [to |-> r.sender, message |-> r.bot_response, posted |-> outcome.posted]
    IN /\ r.pc = "sending"
       /\ outcome \in DeliveryResults
       /\ runs' = [runs EXCEPT ![w] =
             next_message([r EXCEPT !.deliveries = Append(@, sent),
                                    !.send_result = outcome.result],
                          conversations)]
       /\ UNCHANGED <<session, conversations, http, requests, inbound, environ>>

----------------------------------------------------------------------------
(* Initial state and specifications *)

NoRequest ==
    [id |-> 0, previous |-> "none", route |-> "none", request |-> None, status |-> 0,
     body |-> None, calls |-> <<>>, replies |-> <<>>]

Environments ==
    {[WHATSAPP_TOKEN |-> "EAAG", WHATSAPP_PHONE_ID |-> "1055"],
     [WHATSAPP_TOKEN |-> "", WHATSAPP_PHONE_ID |-> "1055"],
     [WHATSAPP_TOKEN |-> "EAAG", WHATSAPP_PHONE_ID |-> ""]}

Init ==
    /\ session = [c \in Clients |-> EmptyDict]
    /\ conversations = EmptyDict
    /\ http = [c \in Clients |-> NoRequest]
    /\ runs = [w \in Workers |-> Idle]
    /\ requests = 0
    /\ inbound = 0
    /\ environ \in Environments

AllDeliveryResults ==
    {[posted |-> TRUE, result |-> "resp.json()"],
     [posted |-> TRUE, result |-> "status_code and text"],
     [posted |-> TRUE, result |-> "error: exception"],
     [posted |-> FALSE, result |-> "error: configuracion faltante"]}

NextSession ==
    \/ \E c \in Clients, data \in QueryBodies, gemini \in GeminiOutcomes :
           handle_query(c, data, gemini)
    \/ \E c \in Clients : clear_history(c)
    \/ \E c \in Clients, mode \in Modes, token \in Tokens, challenge \in Challenges :
           whatsapp_verify(c, mode, token, challenge)

NextWebhook ==
    \/ \E w \in Workers, payload \in WebhookPayloads : whatsapp_webhook(w, payload)
    \/ \E w \in Workers, gemini \in GeminiOutcomes : gemini_returns(w, gemini)
    \/ \E w \in Workers, outcome \in AllDeliveryResults : delivery_returns(w, outcome)

\* The session handlers are checked from start-up and from a state in which the
\* webhook has already stored a conversation.
InitSession ==
    /\ session = [c \in Clients |-> EmptyDict]
    /\ conversations \in
          {EmptyDict,
           dict_set(EmptyDict, "51911", append_exchange(<<>>, "hola", "a1"))}
    /\ http = [c \in Clients |-> NoRequest]
    /\ runs = [w \in Workers |-> Idle]
    /\ requests = 0
    /\ inbound = 0
    /\ environ \in {e \in Environments : e.WHATSAPP_TOKEN # "" /\ e.WHATSAPP_PHONE_ID # ""}

SpecSession == InitSession /\ [][NextSession]_vars

SpecWebhook == Init /\ [][NextWebhook]_vars

----------------------------------------------------------------------------
(* Properties of the session handlers, checked under SpecSession *)

\* this step serves a request of client c with a one-step handler
Served(c, route) ==
    /\ requests' = requests + 1
    /\ http'[c].id = requests'
    /\ http'[c].route = route

has_query_key(data) == data.type = "dict" /\ "query" \in DOMAIN data.value

chat_history(sess) == dict_get(sess, "chat_history", <<>>)

\* C1: a POST /query whose body holds a query calls Gemini once, and when Gemini
\* returns a text the response is 200 with `response` equal to that text and the
\* session history is the history before followed by exactly the user turn with
\* the query and the model turn with the text, in this order.
C1_QuerySuccessAppendsTwoTurns ==
    [][\A c \in Clients :
         (Served(c, "POST /query") /\ has_query_key(http'[c].request)) =>
            /\ Len(http'[c].calls) = 1
            /\ Len(http'[c].replies) = 1
            /\ http'[c].replies[1].ok =>
                 /\ http'[c].status = 200
                 /\ http'[c].body.response = http'[c].replies[1].text
                 /\ "chat_history" \in DOMAIN session'[c]
                 /\ Len(session'[c]["chat_history"]) = Len(chat_history(session[c])) + 2
                 /\ session'[c]["chat_history"] =
                       chat_history(session[c]) \o
                         <<[role |-> "user", text |-> http'[c].request.value["query"]],
                           [role |-> "model", text |-> http'[c].replies[1].text]>>]_vars

\* a second successful exchange of one client: the history before was not empty
C1_Witness ==
    \E c \in Clients :
        /\ http[c].route = "POST /query"
        /\ http[c].status = 200
        /\ Len(chat_history(session[c])) = 4
        /\ session[c]["chat_history"][4].text = http[c].body.response

non_empty_query(data) == has_query_key(data) /\ data.value["query"] # ""

\* C2 as stated: every body other than one with a non-empty `query` (no body, no
\* `query` key, or an empty `query`) is answered 400 without calling Gemini and
\* leaves the session history unchanged.
C2_RejectsAllButNonEmptyQuery ==
    [][\A c \in Clients :
         (Served(c, "POST /query") /\ ~non_empty_query(http'[c].request)) =>
            /\ http'[c].status = 400
            /\ http'[c].calls = <<>>
            /\ session' = session]_vars

\* C2 amended: the bodies answered 400 are exactly the absent or empty ones and
\* those without the `query` key; these make no call to Gemini and leave the
\* session unchanged. Every body with the key, an empty query included, is passed
\* to Gemini.
C2_RejectsMissingQueryKey ==
    [][\A c \in Clients :
         Served(c, "POST /query") =>
            IF has_query_key(http'[c].request)
            THEN /\ http'[c].status # 400
                 /\ Len(http'[c].calls) = 1
            ELSE /\ http'[c].status = 400
                 /\ http'[c].calls = <<>>
                 /\ http'[c].replies = <<>>
                 /\ session' = session]_vars

\* a body without the key is rejected while the session holds a history
C2_Witness ==
    \E c \in Clients :
        /\ http[c].route = "POST /query"
        /\ http[c].request = Dict([other |-> "x"])
        /\ http[c].status = 400
        /\ Len(chat_history(session[c])) = 2

\* C3: when the Gemini call of a POST /query raises, the response is 500, the
\* session holds no chat_history at all afterwards, and Gemini was called once.
C3_QueryFailureDropsHistory ==
    [][\A c \in Clients :
         (/\ Served(c, "POST /query")
          /\ Len(http'[c].replies) > 0
          /\ ~http'[c].replies[1].ok) =>
            /\ http'[c].status = 500
            /\ "chat_history" \notin DOMAIN session'[c]
            /\ Len(http'[c].calls) = 1
            /\ Len(http'[c].replies) = 1]_vars

\* the failing request carried a prior history of two turns to Gemini
C3_Witness ==
    \E c \in Clients :
        /\ http[c].route = "POST /query"
        /\ http[c].status = 500
        /\ Len(http[c].calls) = 1
        /\ Len(http[c].calls[1].contents) = 3
        /\ "chat_history" \notin DOMAIN session[c]

\* C4: POST /clear answers 200 and leaves the client's session without history,
\* other sessions untouched; a /clear right after a /clear changes no session; and
\* the Gemini request of the client's next /query holds one block, the user turn.
C4_ClearThenFreshQuery ==
    [][\A c \in Clients :
         /\ Served(c, "POST /clear") =>
              /\ http'[c].status = 200
              /\ "chat_history" \notin DOMAIN session'[c]
              /\ \A d \in Clients \ {c} : session'[d] = session[d]
         /\ (Served(c, "POST /clear") /\ http[c].route = "POST /clear") =>
              session' = session
         /\ (Served(c, "POST /query") /\ http[c].route = "POST /clear") =>
              /\ has_query_key(http'[c].request) => Len(http'[c].calls) = 1
              /\ \A i \in 1..Len(http'[c].calls) :
                    http'[c].calls[i].contents =
                       <<[role |-> "user",
                          parts |-> <<[text |-> http'[c].request.value["query"]]>>]>>]_vars

\* a query answered right after a /clear, with a single block sent to Gemini
C4_Witness ==
    \E c \in Clients :
        /\ http[c].route = "POST /query"
        /\ http[c].previous = "POST /clear"
        /\ http[c].id = 3
        /\ http[c].status = 200
        /\ Len(http[c].calls[1].contents) = 1
        /\ Len(chat_history(session[c])) = 2

----------------------------------------------------------------------------
(* Properties of the webhook, checked under SpecWebhook *)

\* worker w's call of search_file_store ends in this step
GeminiStep(w) == runs[w].pc = "generating" /\ runs'[w].pc = "sending"

\* worker w's call of enviar_mensaje_whatsapp ends in this step
DeliveryStep(w) == runs[w].pc = "sending" /\ runs'[w].pc \in {"generating", "done"}

addressed(message) == "from" \in DOMAIN message /\ message["from"] # ""

is_text(message) == "type" \in DOMAIN message /\ message["type"] = "text"

\* the request carries exactly one message, a text message with a sender and a body
one_text_message(payload) ==
    /\ payload.type = "dict"
    /\ Len(payload_messages_or_none(payload)) = 1
    /\ LET message == payload_messages_or_none(payload)[1]
       IN addressed(message) /\ is_text(message) /\ "text" \in DOMAIN message

body_of(message) == IF "body" \in DOMAIN message["text"] THEN message["text"]["body"] ELSE ""

others_unchanged(s) ==
    \A t \in Senders \ {s} :
        /\ t \in DOMAIN conversations' <=> t \in DOMAIN conversations
        /\ t \in DOMAIN conversations => conversations'[t] = conversations[t]

\* C6 as stated: a request with exactly one text message from a sender without an
\* entry leaves one entry for that sender, holding the user turn with the body and a
\* model turn, and no other entry changed; it makes one delivery call, to that sender.
C6_OneMessageCreatesEntry ==
    [][\A w \in Workers :
         /\ (/\ GeminiStep(w)
             /\ one_text_message(runs[w].payload)
             /\ runs[w].sender \notin DOMAIN conversations
             /\ runs[w].history_json = <<>>) =>
               /\ runs[w].sender \in DOMAIN conversations'
               /\ Len(conversations'[runs[w].sender]) = 2
               /\ conversations'[runs[w].sender][1] =
                     [role |-> "user",
                      text |-> body_of(payload_messages_or_none(runs[w].payload)[1])]
               /\ conversations'[runs[w].sender][2].role = "model"
               /\ others_unchanged(runs[w].sender)
         /\ (/\ DeliveryStep(w)
             /\ one_text_message(runs[w].payload)
             /\ runs[w].history_json = <<>>) =>
               /\ runs'[w].pc = "done"
               /\ Len(runs'[w].deliveries) = 1
               /\ runs'[w].deliveries[1].to = runs[w].sender]_vars

\* C6 amended: the same, for a request whose Gemini call succeeds; the model turn
\* and the message delivered both carry the generated text.
C6_OneMessageCreatesEntryOnSuccess ==
    [][\A w \in Workers :
         /\ (/\ GeminiStep(w)
             /\ one_text_message(runs[w].payload)
             /\ runs[w].sender \notin DOMAIN conversations
             /\ runs[w].history_json = <<>>
             /\ runs'[w].replies[1].ok) =>
               /\ runs[w].sender \in DOMAIN conversations'
               /\ conversations'[runs[w].sender] =
                     <<[role |-> "user",
                        text |-> body_of(payload_messages_or_none(runs[w].payload)[1])],
                       [role |-> "model", text |-> runs'[w].replies[1].text]>>
               /\ Cardinality(DOMAIN conversations') = Cardinality(DOMAIN conversations) + 1
               /\ others_unchanged(runs[w].sender)
         /\ (/\ DeliveryStep(w)
             /\ one_text_message(runs[w].payload)
             /\ runs[w].history_json = <<>>
             /\ runs[w].replies[1].ok) =>
               /\ runs'[w].pc = "done"
               /\ runs'[w].status = 200
               /\ Len(runs'[w].deliveries) = 1
               /\ runs'[w].deliveries[1].to = runs[w].sender
               /\ runs'[w].deliveries[1].message = runs[w].replies[1].text]_vars

\* a one-message request is answered: its sender's entry holds the two turns, the
\* reply was delivered to the sender, and another sender's entry is in the store
C6_Witness ==
    \E w \in Workers, s \in Senders :
        /\ runs[w].pc = "done"
        /\ one_text_message(runs[w].payload)
        /\ payload_messages_or_none(runs[w].payload)[1]["from"] = s
        /\ DOMAIN conversations = Senders
        /\ Len(conversations[s]) = 2
        /\ runs[w].deliveries =
              <<[to |-> s, message |-> conversations[s][2].text, posted |-> TRUE]>>

\* the handler's loop raises: a text message with a sender has no "text" object
raises(message) == addressed(message) /\ is_text(message) /\ "text" \notin DOMAIN message

first_raising(messages) ==
    IF \E i \in 1..Len(messages) : raises(messages[i])
    THEN CHOOSE i \in 1..Len(messages) :
            raises(messages[i]) /\ \A j \in 1..(i - 1) : ~raises(messages[j])
    ELSE Len(messages) + 1

count_addressed(messages, n) == Cardinality({i \in 1..n : addressed(messages[i])})

\* what C7 says of a finished request, with `rejected` telling the bodies answered 400
acknowledged(r, rejected) ==
    LET messages == payload_messages_or_none(r.payload)
        stop == first_raising(messages)
    IN IF rejected
       THEN r.status = 400 /\ r.body = "no payload" /\ r.deliveries = <<>>
       ELSE IF stop <= Len(messages)
       THEN r.status = 500 /\ r.body = "error"
            /\ Len(r.deliveries) = count_addressed(messages, stop - 1)
       ELSE r.status = 200 /\ r.body = "EVENT_RECEIVED"
            /\ Len(r.deliveries) = count_addressed(messages, Len(messages))

\* C7 as stated: 400 `no payload` when the JSON body is absent; otherwise 200
\* `EVENT_RECEIVED` with every addressed message processed, whatever Gemini and
\* the delivery did, unless the loop raises, and then 500 `error`.
C7_AcknowledgesUnlessAbsent ==
    \A w \in Workers :
        runs[w].pc = "done" => acknowledged(runs[w], runs[w].payload.type = "NoneType")

\* C7 amended: 400 `no payload` when the JSON body is absent or empty (falsy, as
\* the body {} is); otherwise as stated.
C7_AcknowledgesUnlessFalsy ==
    \A w \in Workers :
        runs[w].pc = "done" => acknowledged(runs[w], ~truthy(runs[w].payload))

\* a request of two messages answered 200: Gemini failed for the first, whose
\* apology could not be posted, and the second was processed all the same
C7_Witness ==
    \E w \in Workers :
        /\ runs[w].pc = "done"
        /\ runs[w].status = 200
        /\ Len(runs[w].deliveries) = 2
        /\ runs[w].deliveries[1].message = APOLOGY
        /\ ~runs[w].deliveries[1].posted
        /\ runs[w].deliveries[2].message \in Answers

\* C8: when Gemini fails for a message of sender S, the store holds no entry for S
\* right after, nothing of the failed exchange is recorded, Gemini was called once
\* for the message, and one delivery is made, to S, carrying the apology.
C8_FailureDropsConversation ==
    [][\A w \in Workers :
         /\ (GeminiStep(w) /\ ~runs'[w].replies[1].ok) =>
               /\ runs[w].sender \notin DOMAIN conversations'
               /\ others_unchanged(runs[w].sender)
               /\ Len(runs'[w].calls) = 1
               /\ Len(runs'[w].replies) = 1
               /\ runs'[w].deliveries = runs[w].deliveries
         /\ (DeliveryStep(w) /\ ~runs[w].replies[1].ok) =>
               /\ Len(runs'[w].deliveries) = Len(runs[w].deliveries) + 1
               /\ SubSeq(runs'[w].deliveries, 1, Len(runs[w].deliveries)) = runs[w].deliveries
               /\ runs'[w].deliveries[Len(runs'[w].deliveries)].to = runs[w].sender
               /\ runs'[w].deliveries[Len(runs'[w].deliveries)].message = APOLOGY]_vars

\* Gemini has just failed for a sender whose two-turn history was in the store
C8_Witness ==
    \E w \in Workers :
        /\ runs[w].pc = "sending"
        /\ ~runs[w].replies[1].ok
        /\ Len(runs[w].history_json) = 2
        /\ runs[w].sender \notin DOMAIN conversations
        /\ runs[w].bot_response = APOLOGY

\* C9: the store changes only when a Gemini call ends, and what is stored then is
\* built on the history that run read at its start, whatever the store holds by
\* then: its snapshot followed by its own pair, or no entry if the call failed.
C9_LastWriteWins ==
    [][/\ conversations' # conversations => \E w \in Workers : GeminiStep(w)
       /\ \A w \in Workers :
            GeminiStep(w) =>
               IF runs'[w].replies[1].ok
               THEN /\ runs[w].sender \in DOMAIN conversations'
                    /\ conversations'[runs[w].sender] =
                          runs[w].history_json \o
                            <<[role |-> "user", text |-> runs[w].user_text],
                              [role |-> "model", text |-> runs'[w].replies[1].text]>>
               ELSE runs[w].sender \notin DOMAIN conversations']_vars

\* a lost update: two successful exchanges of one sender read the same history h;
\* the store holds h and the pair of one of them only
C9_Witness ==
    \E s \in Senders :
        /\ \A w \in Workers :
              /\ runs[w].pc = "sending"
              /\ runs[w].sender = s
              /\ runs[w].replies[1].ok
        /\ runs["w1"].history_json = runs["w2"].history_json
        /\ runs["w1"].replies[1].text # runs["w2"].replies[1].text
        /\ s \in DOMAIN conversations
        /\ Len(conversations[s]) = Len(runs["w1"].history_json) + 2
        /\ conversations[s][Len(conversations[s])].text = runs["w2"].replies[1].text

well_formed(history) ==
    /\ Len(history) > 0
    /\ Len(history) % 2 = 0
    /\ \A i \in 1..Len(history) :
          history[i].role = IF i % 2 = 1 THEN "user" ELSE "model"

\* C10: every stored conversation is non-empty, of even length, and alternates
\* user, model, user, model, ... starting with user.
C10_ConversationsAlternate ==
    \A s \in DOMAIN conversations : well_formed(conversations[s])

\* a stored conversation of two exchanges
C10_Witness ==
    \E s \in DOMAIN conversations : Len(conversations[s]) = 4

====
